---------------------------- MODULE Spec2Model ----------------------------
(***************************************************************************)
(* Model of the MTA arrivals and alerts service, api/services/mta.py:     *)
(* _feed_url_for_line, _parse_arrivals, get_arrivals and get_alerts.      *)
(*                                                                         *)
(* Python strings are sequences of one-character strings, so that the     *)
(* substring test, str.upper(), stop_id[:-1], stop_id[-1], str.replace()  *)
(* and str.strip() are computed as the code computes them.  Times are     *)
(* epoch seconds; time.time() is read to the whole second, and             *)
(* (arrival_time - now) / 60 is kept exact as a number of seconds.         *)
(***************************************************************************)
EXTENDS Integers, Sequences, FiniteSets, TLC

VARIABLES
    \* _feed_url_for_line(line)
    line, resolved, rpc,
    \* the stop match of _parse_arrivals
    stop_id, wanted, matches, mpc,
    \* get_arrivals(station_ids, lines, client)
    station_ids, lines, now, net, pc, tasks, fetched, fetchCount,
    responses, parsed, all_arrivals, result,
    \* get_alerts(lines, client)
    a_lines, a_now, a_outcome, apc, a_idx, active_alerts, alerts,
    \* history: the entities of the alerts body whose text was added
    contributed

resolveVars == <<line, resolved, rpc>>
matchVars == <<stop_id, wanted, matches, mpc>>
arrivalVars == <<station_ids, lines, now, net, pc, tasks, fetched, fetchCount,
                 responses, parsed, all_arrivals, result>>
alertVars == <<a_lines, a_now, a_outcome, apc, a_idx, active_alerts, alerts,
               contributed>>
vars == <<resolveVars, matchVars, arrivalVars, alertVars>>

---------------------------------------------------------------------------
(* Bounds of the inputs.                                                   *)

\* longest line string handed to _feed_url_for_line
MaxLineLen == 3
\* longest feed stop id handed to the stop match
MaxStopLen == 5
\* trips of the rush-hour feed
BusyTrips == 13
\* entities of an alerts body
MaxAlerts == 2
\* the epoch second the feeds' predictions are laid around
T0 == 1700000000

---------------------------------------------------------------------------
(* Strings.                                                                *)

\* Python None
None == "None"

\* str.upper(), one character
UpperChar(c) ==
    CASE c = "a" -> "A"
      [] c = "c" -> "C"
      [] c = "e" -> "E"
      [] c = "l" -> "L"
      [] c = "s" -> "S"
      [] OTHER -> c

\* str.upper()
Upper(s) == [i \in 1..Len(s) |-> UpperChar(s[i])]

\* Python's `needle in hay` on strings: needle occurs as a contiguous run
IsSubstring(needle, hay) ==
    \E i \in 0..(Len(hay) - Len(needle)) :
        SubSeq(hay, i + 1, i + Len(needle)) = needle

\* all strings over alphabet of length at most n
StringsUpTo(alphabet, n) == UNION {[1..k -> alphabet] : k \in 0..n}

---------------------------------------------------------------------------
(* FEED_URLS and _feed_url_for_line.                                       *)

\* the dict FEED_URLS in insertion order: lines key, url
FEED_URLS ==
    << [key |-> <<"A", "C", "E">>, url |-> "nyct%2Fgtfs-ace"],
       [key |-> <<"B", "D", "F", "M">>, url |-> "nyct%2Fgtfs-bdfm"],
       [key |-> <<"G">>, url |-> "nyct%2Fgtfs-g"],
       [key |-> <<"J", "Z">>, url |-> "nyct%2Fgtfs-jz"],
       [key |-> <<"N", "Q", "R", "W">>, url |-> "nyct%2Fgtfs-nqrw"],
       [key |-> <<"L">>, url |-> "nyct%2Fgtfs-l"],
       [key |-> <<"1", "2", "3", "4", "5", "6", "7">>, url |-> "nyct%2Fgtfs"],
       [key |-> <<"S", "I", "R">>, url |-> "nyct%2Fgtfs-si"] >>

AllUrls == {FEED_URLS[i].url : i \in 1..Len(FEED_URLS)}

\* the loop of _feed_url_for_line from entry i on
RECURSIVE FeedUrlFrom(_, _)
FeedUrlFrom(l, i) ==
    IF i > Len(FEED_URLS) THEN None
    ELSE IF IsSubstring(Upper(l), FEED_URLS[i].key) THEN FEED_URLS[i].url
    ELSE FeedUrlFrom(l, i + 1)

FeedUrlForLine(l) == FeedUrlFrom(l, 1)

---------------------------------------------------------------------------
(* Idle values of the variables a specification does not use.              *)

IdleResolve == line = <<>> /\ resolved = None /\ rpc = "idle"
IdleMatch == stop_id = <<>> /\ wanted = {} /\ matches = FALSE /\ mpc = "idle"
IdleArrivals ==
    /\ station_ids = {} /\ lines = {} /\ now = 0 /\ net = <<>> /\ pc = "idle"
    /\ tasks = <<>> /\ fetched = <<>> /\ fetchCount = [u \in AllUrls |-> 0]
    /\ responses = <<>> /\ parsed = 0 /\ all_arrivals = <<>>
    /\ result = [North |-> <<>>, South |-> <<>>]
IdleAlerts ==
    /\ a_lines = {} /\ a_now = 0 /\ a_outcome = [kind |-> "idle"]
    /\ apc = "idle" /\ a_idx = 0 /\ active_alerts = {} /\ alerts = {}
    /\ contributed = {}

---------------------------------------------------------------------------
(* Specification of _feed_url_for_line on every short string.              *)

LineAlphabet == {"A", "C", "E", "a", "S", "I", "R", "L", "7", "X"}

InitResolve ==
    /\ line \in StringsUpTo(LineAlphabet, MaxLineLen)
    /\ resolved = None
    /\ rpc = "call"
    /\ IdleMatch /\ IdleArrivals /\ IdleAlerts

ResolveLine ==
    /\ rpc = "call"
    /\ resolved' = FeedUrlForLine(line)
    /\ rpc' = "returned"
    /\ UNCHANGED <<line, matchVars, arrivalVars, alertVars>>

NextResolve == ResolveLine

SpecResolve == InitResolve /\ [][NextResolve]_vars

\* the line codes a feed group serves: the letters or digits of its key,
\* the Staten Island Railway's key being one code
LineCodes(key) ==
    IF key = <<"S", "I", "R">> THEN {key} ELSE {<<key[i]>> : i \in 1..Len(key)}

ServingGroups(l) ==
    {i \in 1..Len(FEED_URLS) : Upper(l) \in LineCodes(FEED_URLS[i].key)}

\* C10: _feed_url_for_line(line) is the url of the first feed group whose set
\* of line codes contains the line, compared case-insensitively, and None for
\* every string that is no line code of any group.
C10_ResolvesLineCodesOnly ==
    rpc = "returned" =>
        IF ServingGroups(line) = {} THEN resolved = None
        ELSE \E i \in ServingGroups(line) :
                /\ \A j \in ServingGroups(line) : i <= j
                /\ resolved = FEED_URLS[i].url

---------------------------------------------------------------------------
(* The stop match of _parse_arrivals.                                      *)

\* a match by the full stop id only
StopMatchesExact(s, ids) == s \in ids

\* `matches` of _parse_arrivals: the exact stop id, or the stop id without
\* its last character, is requested
StopMatches(s, ids) ==
    \/ s \in ids
    \/ (Len(s) > 1 /\ SubSeq(s, 1, Len(s) - 1) \in ids)

StopAlphabet == {"A", "3", "2", "N", "S"}

\* a base stop id and its two platforms
A32 == <<"A", "3", "2">>
A32N == <<"A", "3", "2", "N">>
A32S == <<"A", "3", "2", "S">>

WantedSets == {{A32}, {A32N}, {A32S}, {A32N, A32S}, {A32, A32N}, {}}

InitMatch ==
    /\ stop_id \in StringsUpTo(StopAlphabet, MaxStopLen)
    /\ wanted \in WantedSets
    /\ matches = FALSE
    /\ mpc = "call"
    /\ IdleResolve /\ IdleArrivals /\ IdleAlerts

MatchStop ==
    /\ mpc = "call"
    /\ matches' = StopMatches(stop_id, wanted)
    /\ mpc' = "returned"
    /\ UNCHANGED <<stop_id, wanted, resolveVars, arrivalVars, alertVars>>

NextMatch == MatchStop

SpecMatch == InitMatch /\ [][NextMatch]_vars

FullyQualified == {A32N, A32S}

\* a requested base stop id matches both of its platforms
BaseMatchesBothPlatforms ==
    (mpc = "returned" /\ A32 \in wanted) =>
        (stop_id \in {A32N, A32S} => matches)

\* C5 as stated: with a base stop id requested both platforms match, and
\* with only a fully-qualified id q requested a feed stop id matches if and
\* only if it is q.
C5_QualifiedMatchesOnlyItself ==
    /\ BaseMatchesBothPlatforms
    /\ \A q \in FullyQualified :
        (mpc = "returned" /\ wanted = {q}) => (matches <=> stop_id = q)

\* C5 amended: with a base stop id requested both platforms match, and with
\* only a fully-qualified id q requested a feed stop id matches if and only
\* if it is q or q followed by exactly one more character.
C5_QualifiedMatchesItselfOrOneMore ==
    /\ BaseMatchesBothPlatforms
    /\ \A q \in FullyQualified :
        (mpc = "returned" /\ wanted = {q}) =>
            (matches <=> stop_id \in {q} \cup {Append(q, c) : c \in StopAlphabet})

\* C5 witness: only "A32N" is requested and the feed stop id "A32NS" matched
C5_Witness ==
    /\ mpc = "returned" /\ wanted = {A32N}
    /\ stop_id = Append(A32N, "S") /\ matches

---------------------------------------------------------------------------
(* _parse_arrivals.                                                        *)

SecondsPerMinute == 60
\* arrivals further away than this many minutes are skipped
MaxMinutes == 200
\* entries kept per direction
MaxShown == 11

\* MTA_STATIONS.get(stop_id, "Unknown"): the station name table
StationName(s) ==
    CASE s = <<"A", "0", "2", "N">> -> "Inwood-207 St"
      [] s = <<"A", "0", "9", "N">> -> "168 St"
      [] s = <<"L", "0", "1", "N">> -> "8 Av"
      [] OTHER -> "Unknown"

\* a window one minute too wide at the far end
OutOfWindowWide(secs) ==
    secs < 0 \/ secs > (MaxMinutes + 1) * SecondsPerMinute

\* `minutes < 0 or minutes > 200`, minutes = secs / 60 taken exactly
OutOfWindow(secs) ==
    secs < 0 \/ secs > MaxMinutes * SecondsPerMinute

\* Python round(secs / 60): to the nearest integer, a half to the even one
RoundMinutes(secs) ==
    LET q == secs \div SecondsPerMinute
        r == secs % SecondsPerMinute
    IN  IF 2 * r < SecondsPerMinute THEN q
        ELSE IF 2 * r > SecondsPerMinute THEN q + 1
        ELSE IF q % 2 = 0 THEN q ELSE q + 1

\* minutes rounded up
DisplayMinutesCeil(secs) ==
    (secs + SecondsPerMinute - 1) \div SecondsPerMinute

\* `0 if minutes < 1 else round(minutes)`
DisplayMinutes(secs) ==
    IF secs < SecondsPerMinute THEN 0 ELSE RoundMinutes(secs)

\* `stop_id[-1] if stop_id[-1] in ("N", "S") else "N"` (stop_id not empty)
Direction(s) == IF s[Len(s)] \in {"N", "S"} THEN s[Len(s)] ELSE "N"

\* the terminal of a trip: the name of its last stop time update's stop
Terminal(trip) ==
    StationName(trip.stop_time_update[Len(trip.stop_time_update)].stop_id)

\* whether stop time update su passes the match and the window
Kept(su, ids, t) ==
    StopMatches(su.stop_id, ids) /\ ~OutOfWindow(su.time - t)

\* the inner loop of _parse_arrivals from stop time update k on
RECURSIVE StopArrivals(_, _, _, _)
StopArrivals(trip, k, ids, t) ==
    IF k > Len(trip.stop_time_update) THEN <<>>
    ELSE LET su == trip.stop_time_update[k]
             rest == StopArrivals(trip, k + 1, ids, t)
         IN  IF ~StopMatches(su.stop_id, ids) THEN rest
             ELSE IF OutOfWindow(su.time - t) THEN rest
             ELSE << [line |-> trip.route_id,
                      direction |-> Direction(su.stop_id),
                      terminal |-> Terminal(trip),
                      minutes |-> DisplayMinutes(su.time - t)] >> \o rest

\* the outer loop of _parse_arrivals from entity i on
RECURSIVE EntityArrivals(_, _, _, _, _)
EntityArrivals(entity, i, ids, ls, t) ==
    IF i > Len(entity) THEN <<>>
    ELSE LET e == entity[i]
             rest == EntityArrivals(entity, i + 1, ids, ls, t)
         IN  IF ~e.has_trip_update THEN rest
             ELSE IF e.route_id \notin ls THEN rest
             ELSE StopArrivals(e, 1, ids, t) \o rest

\* _parse_arrivals raises: ParseFromString rejects the bytes (DecodeError),
\* or stop_id[-1] is taken of an empty stop id (IndexError)
ParseRaises(feed_data, ids, ls, t) ==
    \/ ~feed_data.decodable
    \/ \E i \in 1..Len(feed_data.entity) :
         LET e == feed_data.entity[i]
         IN  /\ e.has_trip_update
             /\ e.route_id \in ls
             /\ \E k \in 1..Len(e.stop_time_update) :
                  /\ Kept(e.stop_time_update[k], ids, t)
                  /\ e.stop_time_update[k].stop_id = <<>>

\* _parse_arrivals(feed_data, station_ids, lines, now) when it returns
ParseArrivals(feed_data, ids, ls, t) ==
    EntityArrivals(feed_data.entity, 1, ids, ls, t)

---------------------------------------------------------------------------
(* The aggregation of get_arrivals.                                        *)

\* a sorted list with a put before the entries of equal minutes
InsertBeforeEqual(s, a) ==
    LET k == Cardinality({i \in 1..Len(s) : s[i].minutes < a.minutes})
    IN  SubSeq(s, 1, k) \o <<a>> \o SubSeq(s, k + 1, Len(s))

\* a sorted list with a put after the entries of equal or smaller minutes
InsertStable(s, a) ==
    LET k == Cardinality({i \in 1..Len(s) : s[i].minutes <= a.minutes})
    IN  SubSeq(s, 1, k) \o <<a>> \o SubSeq(s, k + 1, Len(s))

RECURSIVE SortUnstableFrom(_, _, _)
SortUnstableFrom(s, k, acc) ==
    IF k > Len(s) THEN acc
    ELSE SortUnstableFrom(s, k + 1, InsertBeforeEqual(acc, s[k]))

\* a sort by minutes that reverses the entries of equal minutes
SortedUnstable(s) == SortUnstableFrom(s, 1, <<>>)

RECURSIVE SortFrom(_, _, _)
SortFrom(s, k, acc) ==
    IF k > Len(s) THEN acc
    ELSE SortFrom(s, k + 1, InsertStable(acc, s[k]))

\* sorted(s, key=lambda a: a.minutes): ascending, stable
SortedByMinutes(s) == SortFrom(s, 1, <<>>)

\* s[:n]
Take(s, n) == SubSeq(s, 1, IF Len(s) < n THEN Len(s) ELSE n)

\* [a for a in all_arrivals if a.direction == d]
OfDirection(s, d) == SelectSeq(s, LAMBDA a : a.direction = d)

\* the legacy record of an arrival
Legacy(a) ==
    [Line |-> a.line, N_S |-> a.direction,
     Direction |-> a.terminal, Arrival |-> a.minutes]

LegacyList(s) == [i \in 1..Len(s) |-> Legacy(s[i])]

\* the dict get_arrivals returns for the arrivals of all feeds
Aggregated(s) ==
    [North |-> LegacyList(Take(SortedByMinutes(OfDirection(s, "N")), MaxShown)),
     South |-> LegacyList(Take(SortedByMinutes(OfDirection(s, "S")), MaxShown))]

---------------------------------------------------------------------------
(* What the feed endpoints may answer.                                     *)

Pred(s, t) == [stop_id |-> s, time |-> t]
Trip(r, sus) == [has_trip_update |-> TRUE, route_id |-> r, stop_time_update |-> sus]
\* an entity with no trip_update (an alert or a vehicle position)
NonTrip == [has_trip_update |-> FALSE, route_id |-> <<>>, stop_time_update |-> <<>>]
Feed(es) == [decodable |-> TRUE, entity |-> es]
\* bytes that are no FeedMessage: malformed or truncated
Malformed == [decodable |-> FALSE, entity |-> <<>>]

L06 == <<"L", "0", "6">>
L06N == <<"L", "0", "6", "N">>
L06S == <<"L", "0", "6", "S">>
A02N == <<"A", "0", "2", "N">>
A09N == <<"A", "0", "9", "N">>

\* seconds from T0 of the single predictions: around the past, the first
\* minute, the halves and the far end of the window
Offsets == {-60, -1, 0, 30, 59, 60, 90, 150, 180,
            11999, 12000, 12001, 12030, 12060}

SingleFeeds ==
    {Feed(<< Trip(<<"A">>, << Pred(s, T0 + o) >>) >>) :
        s \in {A32N, A32S}, o \in Offsets}

\* one route "A" trip: "A32N" in 180 seconds, "A32S" in 30 seconds
ExampleFeed ==
    Feed(<< Trip(<<"A">>, << Pred(A32N, T0 + 180), Pred(A32S, T0 + 30) >>) >>)

\* many trips of routes "A" and "C" in no order of time, several in the
\* same minute, each calling at both platforms and ending at its terminal
BusyTrip(i) ==
    Trip(IF i % 2 = 1 THEN <<"A">> ELSE <<"C">>,
         << Pred(A32N, T0 + 60 * ((i * 5) % 7)),
            Pred(A32S, T0 + 90 + 60 * ((i * 3) % 5)),
            Pred(IF i % 2 = 1 THEN A02N ELSE A09N, T0 + 3600) >>)

BusyFeed == Feed([i \in 1..BusyTrips |-> BusyTrip(i)])

\* an entity without a trip update, a trip of another route, stop ids
\* without a direction letter and with one character more, a stop time
\* update with no arrival time
MixedFeed ==
    Feed(<< NonTrip,
            Trip(<<"C">>, << Pred(A32N, T0 + 300) >>),
            Trip(<<"A">>, << Pred(A32, T0 + 120),
                            Pred(Append(A32N, "X"), T0 + 200),
                            Pred(A32S, 0),
                            Pred(A32N, T0 + 11999),
                            Pred(A32N, T0 + 12060),
                            Pred(A02N, T0 + 900) >>) >>)

\* a stop time update whose stop id is empty
EmptyStopFeed == Feed(<< Trip(<<"A">>, << Pred(<<>>, T0 + 60) >>) >>)

LFeed ==
    Feed(<< Trip(<<"L">>, << Pred(L06N, T0 + 120), Pred(L06S, T0 + 240) >>),
            Trip(<<"L">>, << Pred(L06N, T0 + 60) >>) >>)

FeedsAt(url) ==
    CASE url = "nyct%2Fgtfs-ace" ->
            SingleFeeds \cup {ExampleFeed, BusyFeed, MixedFeed, EmptyStopFeed, Feed(<<>>)}
      [] url = "nyct%2Fgtfs-l" -> {LFeed, Feed(<<>>)}
      [] OTHER -> {Feed(<<>>)}

\* client.get(url) raised exc: gather hands the exception back
Raised(exc) ==
    [kind |-> "exception", exc |-> exc, status_code |-> 0, content |-> Malformed]
\* client.get(url) returned a response
Response(code, body) ==
    [kind |-> "response", exc |-> None, status_code |-> code, content |-> body]
\* a request not answered yet
Pending == [kind |-> "pending", exc |-> None, status_code |-> 0, content |-> Malformed]

AnswersAt(url) ==
    {Raised("ConnectError"), Raised("ReadTimeout")}
        \cup {Response(code, body) :
                code \in {200, 503}, body \in FeedsAt(url) \cup {Malformed}}

\* the requests: station ids and lines
Requests ==
    { [station_ids |-> {A32N, A32S}, lines |-> {<<"A">>}],
      [station_ids |-> {A32}, lines |-> {<<"A">>, <<"C">>}],
      [station_ids |-> {A32N, L06}, lines |-> {<<"A">>, <<"C">>, <<"L">>}],
      [station_ids |-> {A32N, A32S}, lines |-> {<<"A">>, <<"E">>, <<"X">>}],
      [station_ids |-> {A32}, lines |-> {<<"a">>}],
      [station_ids |-> {A32, <<>>}, lines |-> {<<"A">>}],
      [station_ids |-> {A32}, lines |-> {<<"X">>}] }

---------------------------------------------------------------------------
(* get_arrivals.                                                           *)

\* urls_to_fetch: the distinct urls the lines resolve to
UrlsToFetch(ls) == {FeedUrlForLine(l) : l \in ls} \ {None}

\* every order of the elements of set S
Orders(S) ==
    {o \in [1..Cardinality(S) -> S] : \A i, j \in DOMAIN o : o[i] = o[j] => i = j}

\* one request per requested line that resolves, a url shared by two lines
\* requested twice
TasksPerLine(ls) ==
    LET resolving == {l \in ls : FeedUrlForLine(l) # None}
    IN  {[i \in DOMAIN o |-> FeedUrlForLine(o[i])] : o \in Orders(resolving)}

\* `[client.get(url) for url in urls_to_fetch]`: one request per element of
\* the set, in the order the set iterates
Tasks(ls) == Orders(UrlsToFetch(ls))

InitArrivals ==
    /\ \E r \in Requests : station_ids = r.station_ids /\ lines = r.lines
    /\ now \in {T0, T0 + 30}
    /\ net \in [UrlsToFetch(lines) -> UNION {AnswersAt(u) : u \in UrlsToFetch(lines)}]
    /\ \A u \in UrlsToFetch(lines) : net[u] \in AnswersAt(u)
    /\ pc = "start"
    /\ tasks = <<>> /\ fetched = <<>> /\ fetchCount = [u \in AllUrls |-> 0]
    /\ responses = <<>> /\ parsed = 0 /\ all_arrivals = <<>>
    /\ result = [North |-> <<>>, South |-> <<>>]
    /\ IdleResolve /\ IdleMatch /\ IdleAlerts

\* lines 128-133 and the start of the gather on line 136
ResolveFeeds ==
    /\ pc = "start"
    /\ \E o \in Tasks(lines) :
        /\ tasks' = o
        /\ fetched' = [i \in DOMAIN o |-> Pending]
    /\ pc' = "gather"
    /\ UNCHANGED <<station_ids, lines, now, net, fetchCount, responses, parsed,
                   all_arrivals, result, resolveVars, matchVars, alertVars>>

\* one client.get(url) of the gather is sent and answered
Fetch(i) ==
    /\ pc = "gather"
    /\ fetched[i] = Pending
    /\ fetched' = [fetched EXCEPT ![i] = net[tasks[i]]]
    /\ fetchCount' = [fetchCount EXCEPT ![tasks[i]] = @ + 1]
    /\ UNCHANGED <<station_ids, lines, now, net, pc, tasks, responses, parsed,
                   all_arrivals, result, resolveVars, matchVars, alertVars>>

\* asyncio.gather(..., return_exceptions=True) returns
Gather ==
    /\ pc = "gather"
    /\ \A i \in DOMAIN fetched : fetched[i] # Pending
    /\ responses' = fetched
    /\ parsed' = 0
    /\ pc' = "parse"
    /\ UNCHANGED <<station_ids, lines, now, net, tasks, fetched, fetchCount,
                   all_arrivals, result, resolveVars, matchVars, alertVars>>

\* one turn of the loop over the responses, lines 143-148
ParseResponse ==
    /\ pc = "parse"
    /\ parsed < Len(responses)
    /\ LET response == responses[parsed + 1]
       IN  IF response.kind = "exception"
           THEN /\ parsed' = parsed + 1
                /\ UNCHANGED <<pc, all_arrivals>>
           ELSE IF ParseRaises(response.content, station_ids, lines, now)
           THEN /\ pc' = "raised"
                /\ UNCHANGED <<parsed, all_arrivals>>
           ELSE /\ all_arrivals' = all_arrivals \o
                        ParseArrivals(response.content, station_ids, lines, now)
                /\ parsed' = parsed + 1
                /\ UNCHANGED pc
    /\ UNCHANGED <<station_ids, lines, now, net, tasks, fetched, fetchCount,
                   responses, result, resolveVars, matchVars, alertVars>>

\* lines 150-181: split, sort, cut, format, return
Aggregate ==
    /\ pc = "parse"
    /\ parsed = Len(responses)
    /\ result' = Aggregated(all_arrivals)
    /\ pc' = "done"
    /\ UNCHANGED <<station_ids, lines, now, net, tasks, fetched, fetchCount,
                   responses, parsed, all_arrivals, resolveVars, matchVars, alertVars>>

Next ==
    \/ ResolveFeeds
    \/ \E i \in DOMAIN fetched : Fetch(i)
    \/ Gather
    \/ ParseResponse
    \/ Aggregate

Init == InitArrivals

Spec == Init /\ [][Next]_vars

---------------------------------------------------------------------------
(* Properties of get_arrivals.                                             *)

Returned == pc = "done"
Ended == pc \in {"done", "raised"}

\* the fetch of a url failed: a network error, a timeout, a non-2xx status
FetchFailed(r) ==
    \/ r.kind = "exception"
    \/ (r.kind = "response" /\ r.status_code \notin 200..299)

\* the fetch of a url succeeded
FetchSucceeded(r) == r.kind = "response" /\ r.status_code \in 200..299

\* the arrivals of the successfully fetched and decoded feeds among rs, in
\* the order of rs
RECURSIVE GoodArrivals(_, _)
GoodArrivals(rs, j) ==
    IF j > Len(rs) THEN <<>>
    ELSE (IF FetchSucceeded(rs[j]) /\ rs[j].content.decodable
          THEN ParseArrivals(rs[j].content, station_ids, lines, now)
          ELSE <<>>) \o GoodArrivals(rs, j + 1)

OneFailsOneSucceeds ==
    /\ Cardinality(UrlsToFetch(lines)) >= 2
    /\ \E u \in DOMAIN net : FetchFailed(net[u])
    /\ \E u \in DOMAIN net : FetchSucceeded(net[u]) /\ net[u].content.decodable

\* C1: when the lines resolve to two or more urls and one fetch fails (a
\* network error, a timeout or a non-2xx status) while another succeeds with
\* a valid payload, the call returns normally and its result is made of the
\* arrivals of the succeeding feeds alone.
C1_FailedFeedIsAbsent ==
    (OneFailsOneSucceeds /\ Ended) =>
        (Returned /\ result = Aggregated(GoodArrivals(responses, 1)))

AllFetchedOrRaised ==
    \A u \in DOMAIN net : net[u].kind = "exception" \/ FetchSucceeded(net[u])

SomePayloadUndecodable ==
    \E u \in DOMAIN net : FetchSucceeded(net[u]) /\ ~net[u].content.decodable

\* C2: a payload that cannot be decoded counts as zero trip records:
\* get_arrivals does not raise, and the arrivals of the other fetched and
\* decoded feeds are returned.
C2_UndecodablePayloadIsEmpty ==
    (AllFetchedOrRaised /\ SomePayloadUndecodable) =>
        /\ pc # "raised"
        /\ Returned => result = Aggregated(GoodArrivals(responses, 1))

\* 0 <= (predicted_epoch - now) / 60 <= 200
InWindow(secs) == 0 <= secs /\ secs <= 200 * 60

\* the stop time updates of the parsed responses with a requested route and
\* stop: response, entity, stop time update
MatchedPredictions ==
    UNION {
      UNION {
        {<<j, i, k>> : k \in {k \in 1..Len(responses[j].content.entity[i].stop_time_update) :
            LET e == responses[j].content.entity[i]
            IN  /\ e.has_trip_update
                /\ e.route_id \in lines
                /\ StopMatches(e.stop_time_update[k].stop_id, station_ids)}}
        : i \in 1..Len(responses[j].content.entity)}
      : j \in {j \in DOMAIN responses : responses[j].kind = "response"}}

PredictionSecs(p) ==
    responses[p[1]].content.entity[p[2]].stop_time_update[p[3]].time - now

AdmittedPredictions == {p \in MatchedPredictions : InWindow(PredictionSecs(p))}

Shown == result.North \o result.South

\* C3: every record of North and South has an integer Arrival from 0 to 200,
\* and no record stands for a prediction outside the window: the records are
\* no more than the matched predictions inside it.
C3_ArrivalWithinWindow ==
    Returned =>
        /\ \A i \in DOMAIN Shown : Shown[i].Arrival \in 0..200
        /\ Len(Shown) <= Cardinality(AdmittedPredictions)

\* C3 witness: an Arrival of 200 is returned while a matched prediction
\* past the window and one in the past were discarded
C3_Witness ==
    /\ Returned
    /\ \E i \in DOMAIN Shown : Shown[i].Arrival = 200
    /\ \E p \in MatchedPredictions : PredictionSecs(p) > 200 * 60
    /\ \E p \in MatchedPredictions : PredictionSecs(p) < 0

\* place of entry i of s in the ascending order by minutes, earlier entries
\* first among equal minutes
StableRank(s, i) ==
    Cardinality({j \in 1..Len(s) :
        \/ s[j].minutes < s[i].minutes
        \/ (s[j].minutes = s[i].minutes /\ j < i)})

FirstOfStableSort(out, s) ==
    /\ Len(out) = (IF Len(s) < 11 THEN Len(s) ELSE 11)
    /\ \A i \in 1..Len(s) :
         StableRank(s, i) < 11 => out[StableRank(s, i) + 1] = Legacy(s[i])

NonDecreasing(out) ==
    \A i, j \in DOMAIN out : i < j => out[i].Arrival <= out[j].Arrival

\* C4: North and South each have at most 11 entries, are sorted
\* non-decreasing by Arrival, and are the first 11 of the stable ascending
\* sort of the arrivals of their direction merged over all feeds.
C4_SortedFirstEleven ==
    Returned =>
        /\ Len(result.North) <= 11 /\ Len(result.South) <= 11
        /\ NonDecreasing(result.North) /\ NonDecreasing(result.South)
        /\ FirstOfStableSort(result.North, OfDirection(all_arrivals, "N"))
        /\ FirstOfStableSort(result.South, OfDirection(all_arrivals, "S"))

\* C4 witness: two feeds gave more than 11 northbound arrivals, some of equal
\* minutes, and North holds 11 of them from both feeds
C4_Witness ==
    /\ Returned
    /\ Len(responses) = 2
    /\ Len(OfDirection(all_arrivals, "N")) > 11
    /\ Len(result.North) = 11
    /\ \E i \in DOMAIN result.North : result.North[i].Line = <<"L">>
    /\ \E i, j \in DOMAIN result.North :
         /\ i < j
         /\ result.North[i].Arrival = result.North[j].Arrival
         /\ result.North[i].Line # result.North[j].Line

\* the example request: stops "A32N" and "A32S", line "A", now = T, the feed
\* predicting "A32N" at T + 180 s and "A32S" at T + 30 s
ExampleRequest ==
    /\ station_ids = {A32N, A32S}
    /\ lines = {<<"A">>}
    /\ now = T0
    /\ net["nyct%2Fgtfs-ace"] = Response(200, ExampleFeed)

OneRecord(list, l, d, m) ==
    /\ Len(list) = 1
    /\ list[1].Line = l /\ list[1].N_S = d /\ list[1].Arrival = m

\* C6 as stated: the example returns North = one record of line "A", "N",
\* Arrival 3 and South = one record of line "A", "S", Arrival 1.
C6_ExampleSouthInOne ==
    (ExampleRequest /\ Returned) =>
        /\ OneRecord(result.North, <<"A">>, "N", 3)
        /\ OneRecord(result.South, <<"A">>, "S", 1)

\* C6 amended: the example returns North = one record of line "A", "N",
\* Arrival 3 and South = one record of line "A", "S", Arrival 0 (30 seconds
\* are less than one minute).
C6_ExampleSouthInZero ==
    (ExampleRequest /\ Returned) =>
        /\ OneRecord(result.North, <<"A">>, "N", 3)
        /\ OneRecord(result.South, <<"A">>, "S", 0)

\* C6 witness: the example request has returned its two records
C6_Witness ==
    /\ ExampleRequest /\ Returned
    /\ Len(result.North) = 1 /\ Len(result.South) = 1

\* C7: each feed url is requested exactly once in a call however many lines
\* resolve to it, also when the request fails, and a line that resolves to
\* no url causes no request.
C7_EachUrlFetchedOnce ==
    /\ \A u \in AllUrls : fetchCount[u] <= 1
    /\ pc \in {"parse", "done", "raised"} =>
         \A u \in AllUrls :
            fetchCount[u] = (IF \E l \in lines : FeedUrlForLine(l) = u THEN 1 ELSE 0)

\* C7 witness: lines "A" and "E" of one feed and "X" of none were requested,
\* the one request failed, and the call has ended
C7_Witness ==
    /\ lines = {<<"A">>, <<"E">>, <<"X">>}
    /\ Returned
    /\ net["nyct%2Fgtfs-ace"].kind = "exception"
    /\ fetchCount["nyct%2Fgtfs-ace"] = 1
    /\ \A u \in AllUrls \ {"nyct%2Fgtfs-ace"} : fetchCount[u] = 0

---------------------------------------------------------------------------
(* get_alerts.                                                             *)

Whitespace == {" ", "\n", "\t"}

\* text.replace("\n", " ")
ReplaceNewlines(text) ==
    [i \in 1..Len(text) |-> IF text[i] = "\n" THEN " " ELSE text[i]]

\* text.strip(): without its leading and trailing whitespace
Strip(text) ==
    LET solid == {i \in 1..Len(text) : text[i] \notin Whitespace}
    IN  IF solid = {} THEN <<>>
        ELSE SubSeq(text, CHOOSE i \in solid : \A j \in solid : i <= j,
                          CHOOSE i \in solid : \A j \in solid : j <= i)

\* text.replace("\n", " ").strip()
Normalize(text) == Strip(ReplaceNewlines(text))

\* a period that began at t or before it
StartsAtOrBefore(p, t) == p.start <= t

\* `period["start"] < now`
StartsBefore(p, t) == p.start < t

\* `now < period["end"]`
EndsAfter(p, t) == t < p.end

\* the loop over alert_info["active_period"] from period k on: "add" with
\* the text to add, or "skip" (no period holds now, or a KeyError or
\* IndexError ended the entry)
RECURSIVE ScanPeriods(_, _, _)
ScanPeriods(a, k, t) ==
    IF k > Len(a.active_period) THEN [kind |-> "skip", text |-> <<>>]
    ELSE LET period == a.active_period[k]
         IN  IF ~StartsBefore(period, t) THEN ScanPeriods(a, k + 1, t)
             ELSE IF ~period.has_end THEN [kind |-> "skip", text |-> <<>>]
             ELSE IF ~EndsAfter(period, t) THEN ScanPeriods(a, k + 1, t)
             ELSE IF ~a.has_header_text THEN [kind |-> "skip", text |-> <<>>]
             ELSE [kind |-> "add", text |-> Normalize(a.header_text)]

\* one turn of the loop over data["entity"], lines 206-219
ScanAlert(a, ls, t) ==
    IF ~a.has_alert THEN [kind |-> "skip", text |-> <<>>]
    ELSE IF a.informed_entity = <<>> THEN [kind |-> "skip", text |-> <<>>]
    ELSE IF ~a.informed_entity[1].has_route_id THEN [kind |-> "skip", text |-> <<>>]
    ELSE IF a.informed_entity[1].route_id \notin ls THEN [kind |-> "skip", text |-> <<>>]
    ELSE ScanPeriods(a, 1, t)

(* What the alerts endpoint may answer. *)

Route(r) == [has_route_id |-> TRUE, route_id |-> r]
\* an informed entity naming a stop or an agency only
NoRoute == [has_route_id |-> FALSE, route_id |-> <<>>]
Period(s, e) == [start |-> s, has_end |-> TRUE, end |-> e]
\* an active period with no "end"
OpenPeriod(s) == [start |-> s, has_end |-> FALSE, end |-> 0]
Alert(informed, periods, text) ==
    [has_alert |-> TRUE, informed_entity |-> informed, active_period |-> periods,
     has_header_text |-> TRUE, header_text |-> text]
\* an alert with no header text
NoHeader(informed, periods) ==
    [has_alert |-> TRUE, informed_entity |-> informed, active_period |-> periods,
     has_header_text |-> FALSE, header_text |-> <<>>]
\* an entity with no "alert"
NoAlert ==
    [has_alert |-> FALSE, informed_entity |-> <<>>, active_period |-> <<>>,
     has_header_text |-> FALSE, header_text |-> <<>>]

Delays == <<"Delays", "\n", "ongoing">>
DelaysPadded == <<" ", "Delays", " ", "ongoing", "\n">>
Planned == <<"Planned", " ", "work">>

Around == Period(T0 - 10, T0 + 10)

AlertCatalog ==
    { Alert(<<Route(<<"A">>)>>, <<Around>>, Delays),
      Alert(<<Route(<<"A">>)>>, <<Period(T0, T0 + 10)>>, Delays),
      Alert(<<Route(<<"A">>)>>, <<Period(T0 - 10, T0)>>, Delays),
      Alert(<<Route(<<"A">>)>>, <<Period(T0 - 20, T0 - 10), Period(T0 - 5, T0 + 5)>>, Planned),
      Alert(<<Route(<<"A">>)>>, <<Period(T0 + 5, T0 + 10)>>, Planned),
      Alert(<<Route(<<"A">>)>>, <<>>, Delays),
      Alert(<<Route(<<"L">>)>>, <<Around>>, DelaysPadded),
      Alert(<<Route(<<"L">>), Route(<<"A">>)>>, <<Around>>, Planned),
      Alert(<<Route(<<"A">>)>>, <<OpenPeriod(T0 - 10)>>, Planned),
      Alert(<<Route(<<"A">>)>>, <<OpenPeriod(T0 - 10), Around>>, Planned),
      Alert(<<Route(<<"A">>)>>, <<Around, OpenPeriod(T0 - 10)>>, Planned),
      Alert(<<NoRoute, Route(<<"A">>)>>, <<Around>>, Delays),
      Alert(<<>>, <<Around>>, Delays),
      NoHeader(<<Route(<<"A">>)>>, <<Around>>),
      NoAlert }

\* a response body: not JSON, a JSON array, or a JSON object whose "entity"
\* is a list, is missing or is null
Body(json, entity_kind, entity) ==
    [json |-> json, entity_kind |-> entity_kind, entity |-> entity]

Bodies ==
    {Body("invalid", "missing", <<>>), Body("array", "missing", <<>>),
     Body("object", "missing", <<>>), Body("object", "null", <<>>)}
        \cup {Body("object", "list", es) :
                es \in UNION {[1..n -> AlertCatalog] : n \in 0..MaxAlerts}}

AlertAnswers ==
    {[kind |-> "exception", exc |-> e, status_code |-> 0,
      body |-> Body("invalid", "missing", <<>>)] : e \in {"ConnectError", "ReadTimeout"}}
        \cup {[kind |-> "response", exc |-> None, status_code |-> code, body |-> b] :
                code \in {200, 503}, b \in Bodies}

InitAlerts ==
    /\ a_lines \in {{<<"A">>}, {<<"A">>, <<"L">>}}
    /\ a_now \in {T0, T0 + 5}
    /\ a_outcome \in AlertAnswers
    /\ apc = "start"
    /\ a_idx = 0 /\ active_alerts = {} /\ alerts = {} /\ contributed = {}
    /\ IdleResolve /\ IdleMatch /\ IdleArrivals

\* lines 195-200: the fetch, raise_for_status, response.json(), and the
\* read of data.get("entity", []) on line 205
FetchAlerts ==
    /\ apc = "start"
    /\ IF a_outcome.kind = "exception" \/ a_outcome.status_code \notin 200..299
       THEN apc' = "done"         \* RequestError, HTTPStatusError: return []
       ELSE IF a_outcome.body.json = "invalid"
       THEN apc' = "raised"       \* json.JSONDecodeError is not caught
       ELSE IF a_outcome.body.json = "array"
       THEN apc' = "raised"       \* a list has no .get: AttributeError
       ELSE IF a_outcome.body.entity_kind = "null"
       THEN apc' = "raised"       \* None is not iterable: TypeError
       ELSE apc' = "loop"
    /\ UNCHANGED <<a_lines, a_now, a_outcome, a_idx, active_alerts, alerts,
                   contributed, resolveVars, matchVars, arrivalVars>>

\* the entities the loop runs over: data.get("entity", [])
Entities == a_outcome.body.entity

ScanEntity ==
    /\ apc = "loop"
    /\ a_idx < Len(Entities)
    /\ LET found == ScanAlert(Entities[a_idx + 1], a_lines, a_now)
       IN  IF found.kind = "add"
           THEN /\ active_alerts' = active_alerts \cup {found.text}
                /\ contributed' = contributed \cup {a_idx + 1}
           ELSE UNCHANGED <<active_alerts, contributed>>
    /\ a_idx' = a_idx + 1
    /\ UNCHANGED <<a_lines, a_now, a_outcome, apc, alerts,
                   resolveVars, matchVars, arrivalVars>>

\* line 221: return list(active_alerts)
ReturnAlerts ==
    /\ apc = "loop"
    /\ a_idx = Len(Entities)
    /\ alerts' = active_alerts
    /\ apc' = "done"
    /\ UNCHANGED <<a_lines, a_now, a_outcome, a_idx, active_alerts,
                   contributed, resolveVars, matchVars, arrivalVars>>

NextAlerts == FetchAlerts \/ ScanEntity \/ ReturnAlerts

SpecAlerts == InitAlerts /\ [][NextAlerts]_vars

\* the alerts fetch failed or its body did not parse to an object with an
\* entity list
AlertsFetchOrParseFailed ==
    \/ a_outcome.kind = "exception"
    \/ a_outcome.status_code \notin 200..299
    \/ a_outcome.body.json # "object"
    \/ a_outcome.body.entity_kind # "list"

\* C8: get_alerts never raises, and returns an empty list for a network
\* error, a timeout, a non-2xx status, a body that is not JSON and a JSON
\* body that is no object with an entity list.
C8_AlertsNeverRaise ==
    /\ apc # "raised"
    /\ (apc = "done" /\ AlertsFetchOrParseFailed) => alerts = {}

\* an alert with every field the scan reads
WellFormed(a) ==
    /\ a.has_alert
    /\ a.informed_entity # <<>>
    /\ a.informed_entity[1].has_route_id
    /\ \A k \in DOMAIN a.active_period : a.active_period[k].has_end
    /\ a.has_header_text

\* some active period of a has start < t < end
ActiveAt(a, t) ==
    \E k \in DOMAIN a.active_period :
        a.active_period[k].start < t /\ t < a.active_period[k].end

=============================================================================
